---- MODULE Spec2Model ----
(***************************************************************************)
(* A state-machine model of redbot_orm: the dialect router (registry.py),  *)
(* the server-backed dialect (postgres.py) and the tool resolution and     *)
(* command runner it uses (common.py).                                     *)
(*                                                                         *)
(* The world the library acts on is part of the state: the database server *)
(* (the set of database names it holds, its open administrative            *)
(* connections), the table classes' engine slots and the process           *)
(* environment.  Every call is a small thread of control: pc[c] is the     *)
(* await point the call is parked at, args[c] what the caller passed,      *)
(* loc[c] the locals of the functions on the call's stack, events[c] the   *)
(* side effects the call has had so far, outcome[c] what it returned or    *)
(* raised.                                                                 *)
(***************************************************************************)
EXTENDS Integers, Sequences, FiniteSets, TLC

\* ------------------------------------------------------------------ bounds
MaxCalls == 2
MaxOutLen == 2
MaxErrLen == 1
MaxPathDirs == 1
MaxLibFolders == 1
MaxDuration == 11
MaxArgs == 3

\* ------------------------------------------------------- program constants
DefaultMaxSize == 20
DefaultMinSize == 1
ConnectTimeout == 10
AcquireTimeout == 10

Callers == {"t1", "t2"}
FirstCaller == "t1"

\* ------------------------------------------------------------------- text
\* Strings the code inspects are sequences of characters, so that lower(),
\* replace() and quoting are computed, not assumed.
DQ == "\""

LowerChar(ch) ==
    CASE ch = "A" -> "a"
      [] ch = "B" -> "b"
      [] OTHER -> ch

\* str.lower()
str_lower(s) == [i \in 1..Len(s) |-> LowerChar(s[i])]

RECURSIVE Concat(_)
Concat(ss) == IF ss = << >> THEN << >> ELSE Head(ss) \o Concat(Tail(ss))

\* str.replace('"', '""')
replace_quotes(s) == Concat([i \in 1..Len(s) |-> IF s[i] = DQ THEN <<DQ, DQ>> ELSE <<s[i]>>])

\* '"' + database_name.replace('"', '""') + '"'
EscapeIdentifier(name) == <<DQ>> \o replace_quotes(name) \o <<DQ>>

\* How the server reads the identifier of CREATE DATABASE <identifier>;
\* between double quotes a doubled quote is one quote and the letter case is
\* kept, and a lone quote ends the identifier, so text after it is a syntax
\* error; without quotes the name is folded to lower case.
SyntaxError == [ok |-> FALSE, name |-> << >>]

RECURSIVE ScanQuoted(_, _)
ScanQuoted(s, acc) ==
    IF s = << >> THEN SyntaxError
    ELSE IF s[1] # DQ THEN ScanQuoted(Tail(s), Append(acc, s[1]))
    ELSE IF Len(s) >= 2 /\ s[2] = DQ THEN ScanQuoted(Tail(Tail(s)), Append(acc, DQ))
    ELSE IF Len(s) = 1 THEN [ok |-> TRUE, name |-> acc]
    ELSE SyntaxError

ParseIdentifier(q) ==
    IF q # << >> /\ q[1] = DQ THEN ScanQuoted(Tail(q), << >>)
    ELSE IF \E i \in 1..Len(q) : q[i] = DQ THEN SyntaxError
    ELSE [ok |-> TRUE, name |-> str_lower(q)]

\* --------------------------------------------------------- cog identities
Stems == { <<"A", "b">>, <<"a", DQ>> }
QualifiedNames == { <<"a", "B">> }
NoName == << >>

\* The root directory as the file system shows it.
Roots ==
    { r \in [is_absolute : BOOLEAN, backslashes : BOOLEAN, is_dir : BOOLEAN,
             db_app : BOOLEAN, root_app : BOOLEAN, stem : Stems] :
        ~r.is_dir => (~r.db_app /\ ~r.root_app) }

NoRoot ==
    [is_absolute |-> FALSE, backslashes |-> FALSE, is_dir |-> FALSE,
     db_app |-> FALSE, root_app |-> FALSE, stem |-> NoName]

\* kind "path": a bare Path; "cog": a live commands.Cog, whose root is the
\* directory of its class file; "other": neither.
Identities ==
    { [kind |-> "path", root |-> r, qualified_name |-> NoName] : r \in Roots }
    \cup { [kind |-> "cog", root |-> r, qualified_name |-> q] :
             r \in Roots, q \in QualifiedNames }
    \cup { [kind |-> "other", root |-> NoRoot, qualified_name |-> NoName] }

\* variant, for sensitivity: the directory's name is lower-cased
get_root_Lowered(cog_instance) ==
    [cog_instance.root EXCEPT !.stem = str_lower(@)]

get_root(cog_instance) == cog_instance.root

\* variant, for sensitivity: the prefix test looks for "//", which no path here starts with
is_unc_path_ForwardSlashes(path) == path.is_absolute /\ FALSE

is_unc_path(path) == path.is_absolute /\ path.backslashes

\* variant, for sensitivity: the name keeps its letter case
db_name_CaseKept(cog_instance) ==
    IF cog_instance.kind = "path"
    THEN cog_instance.root.stem
    ELSE cog_instance.qualified_name

db_name(cog_instance) ==
    IF cog_instance.kind = "path"
    THEN str_lower(cog_instance.root.stem)
    ELSE str_lower(cog_instance.qualified_name)

\* ------------------------------------------------------------ Python values
PyNone == [py |-> "None"]
PyDict(d) == [py |-> "dict", d |-> d]
PyTuple(items) == [py |-> "tuple", items |-> items]
PyList(items) == [py |-> "list", items |-> items]

\* list(x)
list(x) == PyList(x.items)

\* len(config)
len(config) == Cardinality(DOMAIN config.d)

EmptyDict == [k \in {} |-> ""]

\* dict.copy() followed by d[key] = value
dict_set(d, key, value) ==
    [k \in (DOMAIN d) \cup {key} |-> IF k = key THEN value ELSE d[k]]

\* variant, for sensitivity: the key is set in the caller's mapping itself
CopyAndSet_InPlace(config, key, value) ==
    [copy |-> dict_set(config, key, value), config |-> dict_set(config, key, value)]

\* tmp_config = config.copy(); tmp_config[key] = value: the new mapping, and
\* the mapping `config` refers to as the two statements leave it.
CopyAndSet(config, key, value) ==
    [copy |-> dict_set(config, key, value), config |-> config]

\* dict.get(key, default)
dict_get(d, key, default) == IF key \in DOMAIN d THEN d[key] ELSE default

\* The connection configs callers pass.
CallerDatabase == <<"O", "t">>
Config1 == ("user" :> "bot") @@ ("database" :> CallerDatabase)
ConfigValues == { PyNone, PyDict(EmptyDict), PyDict(Config1) }

DefaultExtensions == PyTuple(<<"uuid-ossp">>)
ExtensionValues == { DefaultExtensions, PyTuple(<<"hstore">>), PyList(<<"uuid-ossp">>) }

\* Keyword arguments: a function from the names the caller supplied to their
\* values.  A parameter the caller left out takes its default.
NoKw == [k \in {} |-> PyNone]
Param(kw, name, default) == IF name \in DOMAIN kw THEN kw[name] ELSE default
Opt(name, values) == { NoKw } \cup { name :> v : v \in values }

PoolKw ==
    Opt("max_size", {DefaultMaxSize, DefaultMaxSize - 15})
    \cup Opt("min_size", {DefaultMinSize, DefaultMinSize + 1})
    \cup Opt("extensions", ExtensionValues)

Timestamps == { "20230101" }
Descriptions == { PyNone, [py |-> "str", s |-> "Test migration"] }

Tables == { "T1", "T2" }
TableLists == { <<"T1">>, <<"T1", "T2">> }

TopLevelOps ==
    { "register_cog", "run_migrations", "reverse_migration", "create_migrations",
      "diagnose_issues" }

\* The keyword arguments of the top-level entry points (registry.py).
KwOf(op) ==
    CASE op = "register_cog" ->
           { a @@ b @@ c @@ d :
               a \in Opt("config", ConfigValues), b \in PoolKw,
               c \in { "trace" :> v : v \in BOOLEAN },
               d \in { "skip_migrations" :> v : v \in BOOLEAN } }
      [] op = "run_migrations" ->
           { a @@ c : a \in Opt("config", ConfigValues), c \in Opt("trace", BOOLEAN) }
      [] op = "reverse_migration" ->
           { a @@ b @@ c :
               a \in Opt("config", ConfigValues),
               b \in { "timestamp" :> v : v \in Timestamps },
               c \in Opt("trace", BOOLEAN) }
      [] op = "create_migrations" ->
           { a @@ b @@ c @@ d :
               a \in Opt("config", ConfigValues), b \in Opt("trace", {TRUE}),
               c \in Opt("description", Descriptions), d \in Opt("is_shell", BOOLEAN) }
      [] op = "diagnose_issues" ->
           { a : a \in Opt("config", ConfigValues) }
      [] op = "ensure_database_exists" ->
           { "config" :> PyDict(Config1) }
      [] op = "get_piccolo_command" ->
           { NoKw }

Ops == TopLevelOps \cup { "ensure_database_exists", "get_piccolo_command" }

\* ---------------------------------------------------- scaffold.py: layout
\* _DIRECTORIES and the keys of _FILES, in the order the code visits them.
_DIRECTORIES == << "db", "db/migrations" >>
_FILES ==
    << "db/tables.py", "db/piccolo_conf.py", "db/piccolo_app.py", "db/__init__.py",
       "build.py" >>
ScaffoldFiles == { _FILES[i] : i \in 1..Len(_FILES) }
InDb(file) == file # "build.py"

\* A target directory: the directories in it, and per scaffold file "absent",
\* "original" (something the user wrote) or "template" (_FILES[file]).
EmptyTarget == [dirs |-> {}, content |-> [f \in ScaffoldFiles |-> "absent"]]
Targets ==
    { t \in [dirs : SUBSET { "db", "db/migrations" },
             content : [ScaffoldFiles -> { "absent", "original" }]] :
        /\ "db/migrations" \in t.dirs => "db" \in t.dirs
        /\ \A f \in ScaffoldFiles :
             (InDb(f) /\ t.content[f] # "absent") => "db" \in t.dirs }

\* file_path.exists()
exists(target, file) == target.content[file] # "absent"

\* variant, for sensitivity: an existing file is rewritten like a missing one
skips_InNoCase(target, file, overwrite) == FALSE

\* if file_path.exists() and not overwrite: continue
skips(target, file, overwrite) == exists(target, file) /\ ~overwrite

\* create_scaffold(target, overwrite=...): the directories are made, every
\* file not skipped is written with its template, and the files written are
\* returned in the order of _FILES.
create_scaffold(target, overwrite) ==
    LET made == { _DIRECTORIES[i] : i \in 1..Len(_DIRECTORIES) }
        written == SelectSeq(_FILES, LAMBDA f : ~skips(target, f, overwrite))
        wrote(f) == \E i \in 1..Len(written) : written[i] = f
    IN  [target |-> [dirs |-> target.dirs \cup made,
                     content |-> [f \in ScaffoldFiles |->
                                    IF wrote(f) THEN "template" ELSE target.content[f]]],
         created |-> written]

\* ------------------------------------------------------ cli.py: the parser
\* Command-line words: the subcommand, a directory name, the flag the
\* subcommand knows and one no parser knows.
ArgWords == { "scaffold", "cog", "--overwrite", "--bogus" }
IsOption(word) == word \in { "--overwrite", "--bogus" }
Argvs == UNION { [1..k -> ArgWords] : k \in 0..MaxArgs }
ParserError == [ok |-> FALSE, code |-> 2]

\* The scaffold subparser: `target` takes the first word that is not an
\* option, --overwrite sets the flag, and any other word is an unrecognized
\* argument, on which argparse exits with status 2.
RECURSIVE ParseScaffold(_, _)
ParseScaffold(words, ns) ==
    IF words = << >> THEN [ok |-> TRUE, ns |-> ns]
    ELSE IF Head(words) = "--overwrite"
    THEN ParseScaffold(Tail(words), [ns EXCEPT !.overwrite = TRUE])
    ELSE IF IsOption(Head(words)) THEN ParserError
    ELSE IF ns.given THEN ParserError
    ELSE ParseScaffold(Tail(words), [ns EXCEPT !.target = Head(words), !.given = TRUE])

\* parser.parse_args(argv) with subparsers required: without a subcommand,
\* or with a word that is none, argparse reports the error and exits with
\* status 2.
parse_args(argv) ==
    IF argv = << >> THEN ParserError
    ELSE IF Head(argv) # "scaffold" THEN ParserError
    ELSE ParseScaffold(Tail(argv),
                       [command |-> "scaffold", target |-> ".", given |-> FALSE,
                        overwrite |-> FALSE])

\* main(argv): the exit status returned, or SystemExit raised by the parser,
\* and the target as the call leaves it.
main(argv, target) ==
    LET parsed == parse_args(argv)
    IN  IF ~parsed.ok
        THEN [result |-> [kind |-> "raise", error |-> "SystemExit", code |-> parsed.code],
              target |-> target, printed |-> "error"]
        ELSE IF parsed.ns.command = "scaffold"
        THEN LET made == create_scaffold(target, parsed.ns.overwrite)
             IN  [result |-> [kind |-> "return", value |-> 0],
                  target |-> made.target,
                  printed |-> IF made.created # << >> THEN "created" ELSE "all exist"]
        ELSE [result |-> [kind |-> "return", value |-> 1], target |-> target,
              printed |-> "help"]

\* ------------------------------------------------- locating the piccolo tool
ExecutableNames == <<"piccolo", "piccolo.exe">>
DirContents == SUBSET { "piccolo", "piccolo.exe" }

\* What the file system and the interpreter hold when the tool is looked up:
\* the executables in each PATH directory, in each folder of Downloader's lib
\* directory (when it exists) and next to the interpreter, and whether the
\* piccolo package can be imported.
ToolEnvs ==
    { e \in [PATH : [1..MaxPathDirs -> DirContents], lib_exists : BOOLEAN,
             lib_folders : [1..MaxLibFolders -> DirContents],
             default_exists : BOOLEAN, importable : BOOLEAN] :
        ~e.lib_exists => \A i \in 1..MaxLibFolders : e.lib_folders[i] = {} }

NotFound == [where |-> "nowhere", dir |-> 0, name |-> ""]
Executable(where, dir, name) == [where |-> where, dir |-> dir, name |-> name]

\* for executable_name in ["piccolo", "piccolo.exe"]: the first that exists
FirstName(contents) ==
    IF ExecutableNames[1] \in contents THEN ExecutableNames[1] ELSE ExecutableNames[2]

\* variant, for sensitivity: the directory of the interpreter is not searched
find_piccolo_executable_NoDefault(env) ==
    LET inPath == { i \in 1..MaxPathDirs : env.PATH[i] # {} }
        inLib == { i \in 1..MaxLibFolders : env.lib_folders[i] # {} }
    IN  IF inPath # {}
        THEN LET i == CHOOSE j \in inPath : \A k \in inPath : j <= k
             IN  { [where |-> "PATH", dir |-> i, name |-> FirstName(env.PATH[i])] }
        ELSE IF env.lib_exists /\ inLib # {}
        THEN { [where |-> "lib", dir |-> i, name |-> FirstName(env.lib_folders[i])] : i \in inLib }
        ELSE { [where |-> "nowhere", dir |-> 0, name |-> ""] }

\* The paths find_piccolo_executable may return, or {NotFound} when it raises
\* FileNotFoundError.  PATH is searched in order; iterdir() yields the lib
\* folders in an order the platform chooses, so any folder that holds an
\* executable may be the one returned.
find_piccolo_executable(env) ==
    LET inPath == { i \in 1..MaxPathDirs : env.PATH[i] # {} }
        inLib == { i \in 1..MaxLibFolders : env.lib_folders[i] # {} }
    IN  IF inPath # {}
        THEN LET i == CHOOSE j \in inPath : \A k \in inPath : j <= k
             IN  { Executable("PATH", i, FirstName(env.PATH[i])) }
        ELSE IF env.lib_exists /\ inLib # {}
        THEN { Executable("lib", i, FirstName(env.lib_folders[i])) : i \in inLib }
        ELSE IF env.default_exists
        THEN { Executable("interpreter", 0, "piccolo") }
        ELSE { NotFound }

ModulePrefix == <<"sys.executable", "-m", "piccolo.main">>

\* The results of get_piccolo_command: a returned prefix or the error raised.
get_piccolo_command(env) ==
    { IF exe = NotFound
      THEN IF env.importable
           THEN [kind |-> "return", value |-> ModulePrefix]
           ELSE [kind |-> "raise", error |-> "FileNotFoundError"]
      ELSE [kind |-> "return", value |-> <<exe>>] :
      exe \in find_piccolo_executable(env) }

\* ------------------------------------------------------------------ state
VARIABLES
    os_environ,    \* the names set in the process environment
    databases,     \* the database names the server holds
    open_conns,    \* the administrative connections open on the server
    table_db,      \* each table class's engine slot (_meta.db); 0 is unset
    ncalls,        \* calls begun so far; numbers the calls and their engines
    created,       \* per database name, the CREATE DATABASE statements that ran
    ensured,       \* per database name, the results of finished existence checks
    pc,            \* where each caller's call is parked
    args,          \* what the caller passed
    loc,           \* the locals of the functions on the call's stack
    events,        \* the side effects of the call so far, in order
    outcome,       \* what the call returned or raised
    files          \* the scaffold target: its directories and its files' contents

vars ==
    <<os_environ, databases, open_conns, table_db, ncalls, created, ensured,
      pc, args, loc, events, outcome, files>>

world == <<os_environ, databases, open_conns, table_db, created, ensured, files>>

DbNames == { db_name(i) : i \in { j \in Identities : j.kind # "other" } }

NoArgs == [op |-> "none"]
NoLoc == [fn |-> "none"]
NoOutcome == [kind |-> "none"]

Init ==
    /\ os_environ \in SUBSET { "PICCOLO_CONF" }
    /\ databases \in { {CallerDatabase}, {CallerDatabase, <<"a", "b">>} }
    /\ open_conns = {}
    /\ table_db = [t \in Tables |-> 0]
    /\ ncalls = 0
    /\ created = [n \in DbNames |-> 0]
    /\ ensured = [n \in DbNames |-> << >>]
    /\ pc = [c \in Callers |-> "idle"]
    /\ args = [c \in Callers |-> NoArgs]
    /\ loc = [c \in Callers |-> NoLoc]
    /\ events = [c \in Callers |-> << >>]
    /\ outcome = [c \in Callers |-> NoOutcome]
    /\ files = EmptyTarget

\* ------------------------------------------------------------ call helpers
Without(l, fields) == [k \in (DOMAIN l) \ fields |-> l[k]]
With(l, r) == r @@ l
Goto(c, label) == pc' = [pc EXCEPT ![c] = label]
SetLoc(c, l) == loc' = [loc EXCEPT ![c] = l]
Emit(c, evs) == events' = [events EXCEPT ![c] = @ \o evs]
Return(c, value) ==
    /\ pc' = [pc EXCEPT ![c] = "done"]
    /\ outcome' = [outcome EXCEPT ![c] = [kind |-> "return", value |-> value]]
Raise(c, error) ==
    /\ pc' = [pc EXCEPT ![c] = "done"]
    /\ outcome' = [outcome EXCEPT ![c] = [kind |-> "raise", error |-> error]]

Kinds(evs) == { evs[i].ev : i \in 1..Len(evs) }

\* The calls made.  Every argument varies where the code reads it: the
\* router's keyword arguments on one cog, the cog's root directory with
\* register_cog, the cog's kind and names with every operation.
PlainRoot(stem) ==
    [is_absolute |-> TRUE, backslashes |-> FALSE, is_dir |-> TRUE, db_app |-> TRUE,
     root_app |-> FALSE, stem |-> stem]
OtherIdentity == [kind |-> "other", root |-> NoRoot, qualified_name |-> NoName]
PlainIdentities ==
    { [kind |-> "path", root |-> PlainRoot(n), qualified_name |-> NoName] : n \in Stems }
    \cup { [kind |-> "cog", root |-> PlainRoot(<<"a", DQ>>), qualified_name |-> q] :
             q \in QualifiedNames }
BaseIdentity ==
    [kind |-> "path", root |-> PlainRoot(<<"A", "b">>), qualified_name |-> NoName]

BaseKw(op) ==
    ("config" :> PyDict(Config1))
    @@ (IF op = "reverse_migration" THEN "timestamp" :> "20230101" ELSE NoKw)

Call(op, ident, tables, kw) ==
    [op |-> op, cog_instance |-> ident, tables |-> tables, kw |-> kw]

RouterCalls ==
    UNION { { Call(op, BaseIdentity, <<"T1", "T2">>, kw) : kw \in KwOf(op) } :
            op \in TopLevelOps }
RootCalls ==
    { Call("register_cog", ident, tables,
           ("config" :> PyDict(Config1)) @@ ("skip_migrations" :> TRUE)) :
        ident \in Identities, tables \in TableLists }
NameCalls ==
    { Call(op, ident, <<"T1">>, BaseKw(op)) :
        op \in TopLevelOps \cup { "ensure_database_exists" },
        ident \in PlainIdentities \cup { OtherIdentity } }
Calls ==
    RouterCalls \cup RootCalls \cup NameCalls
    \cup { Call("get_piccolo_command", OtherIdentity, << >>, NoKw) }

StartCall(c, call) ==
    /\ args' = [args EXCEPT ![c] = With(call, [id |-> ncalls + 1])]
    /\ ncalls' = ncalls + 1
    /\ Goto(c, "called")
    /\ SetLoc(c, NoLoc)
    /\ events' = [events EXCEPT ![c] = << >>]
    /\ outcome' = [outcome EXCEPT ![c] = NoOutcome]
    /\ UNCHANGED world

\* A caller makes a call.
Begin(c) ==
    /\ c = FirstCaller
    /\ pc[c] = "idle"
    /\ ncalls = 0
    /\ \E call \in Calls : StartCall(c, call)

\* ------------------------------------------------- registry.py: the router
IsNone(x) == x.py = "None"

\* variant, for sensitivity: an empty mapping is kept as a config
NormalizeConfig_KeepEmpty(config) == config

\* if config is not None and len(config) == 0: config = None
NormalizeConfig(config) ==
    IF ~IsNone(config) /\ len(config) = 0 THEN PyNone ELSE config

NoParams == [fn |-> "none"]

\* Hands a call to one dialect: the frame holds the function called and the
\* arguments it was given.
Delegate(c, impl, fn, params) ==
    /\ Goto(c, IF impl = "postgres" THEN "pg_" \o fn ELSE "sqlite")
    /\ SetLoc(c, [impl |-> impl, fn |-> fn, p |-> NoParams, q |-> params,
                  ret |-> << >>,
                  caller_config |-> IF "config" \in DOMAIN params
                                    THEN params.config ELSE EmptyDict])
    /\ Emit(c, << [ev |-> "delegate", impl |-> impl, fn |-> fn, params |-> params] >>)
    /\ UNCHANGED <<outcome, args, ncalls, world>>

\* variant, for sensitivity: the extensions argument is not looked at
PostgresOptionsUsed_SizesOnly(max_size, min_size, extensions) ==
    \/ max_size # DefaultMaxSize
    \/ min_size # DefaultMinSize

\* max_size != 20 or min_size != 1 or extensions != ("uuid-ossp",)
PostgresOptionsUsed(max_size, min_size, extensions) ==
    \/ max_size # DefaultMaxSize
    \/ min_size # DefaultMinSize
    \/ extensions # DefaultExtensions

RegistryRegisterCog(c) ==
    /\ pc[c] = "called"
    /\ args[c].op = "register_cog"
    /\ LET kw == args[c].kw
           config == NormalizeConfig(Param(kw, "config", PyNone))
           trace == Param(kw, "trace", FALSE)
           skip_migrations == Param(kw, "skip_migrations", FALSE)
           max_size == Param(kw, "max_size", DefaultMaxSize)
           min_size == Param(kw, "min_size", DefaultMinSize)
           extensions == Param(kw, "extensions", DefaultExtensions)
       IN  IF IsNone(config) /\ PostgresOptionsUsed(max_size, min_size, extensions)
           THEN /\ Raise(c, "ValueError")
                /\ UNCHANGED <<loc, events, args, ncalls, world>>
           ELSE IF ~IsNone(config)
           THEN Delegate(c, "postgres", "register_cog",
                    [cog_instance |-> args[c].cog_instance, tables |-> args[c].tables,
                     config |-> config.d, trace |-> trace, max_size |-> max_size,
                     min_size |-> min_size, skip_migrations |-> skip_migrations,
                     extensions |-> list(extensions)])
           ELSE Delegate(c, "sqlite", "register_cog",
                    [cog_instance |-> args[c].cog_instance, tables |-> args[c].tables,
                     trace |-> trace, skip_migrations |-> skip_migrations])

RegistryRunMigrations(c) ==
    /\ pc[c] = "called"
    /\ args[c].op = "run_migrations"
    /\ LET kw == args[c].kw
           config == NormalizeConfig(Param(kw, "config", PyNone))
           trace == Param(kw, "trace", FALSE)
       IN  IF ~IsNone(config)
           THEN Delegate(c, "postgres", "run_migrations",
                    [cog_instance |-> args[c].cog_instance, config |-> config.d,
                     trace |-> trace])
           ELSE Delegate(c, "sqlite", "run_migrations",
                    [cog_instance |-> args[c].cog_instance, trace |-> trace])

RegistryReverseMigration(c) ==
    /\ pc[c] = "called"
    /\ args[c].op = "reverse_migration"
    /\ LET kw == args[c].kw
           config == NormalizeConfig(Param(kw, "config", PyNone))
           trace == Param(kw, "trace", FALSE)
           timestamp == kw["timestamp"]
       IN  IF ~IsNone(config)
           THEN Delegate(c, "postgres", "reverse_migration",
                    [cog_instance |-> args[c].cog_instance, config |-> config.d,
                     timestamp |-> timestamp, trace |-> trace])
           ELSE Delegate(c, "sqlite", "reverse_migration",
                    [cog_instance |-> args[c].cog_instance, timestamp |-> timestamp,
                     trace |-> trace])

RegistryCreateMigrations(c) ==
    /\ pc[c] = "called"
    /\ args[c].op = "create_migrations"
    /\ LET kw == args[c].kw
           config == NormalizeConfig(Param(kw, "config", PyNone))
           trace == Param(kw, "trace", FALSE)
           description == Param(kw, "description", PyNone)
           is_shell == Param(kw, "is_shell", TRUE)
       IN  IF ~IsNone(config)
           THEN Delegate(c, "postgres", "create_migrations",
                    [cog_instance |-> args[c].cog_instance, config |-> config.d,
                     trace |-> trace, description |-> description,
                     is_shell |-> is_shell])
           ELSE Delegate(c, "sqlite", "create_migrations",
                    [cog_instance |-> args[c].cog_instance, trace |-> trace,
                     description |-> description, is_shell |-> is_shell])

RegistryDiagnoseIssues(c) ==
    /\ pc[c] = "called"
    /\ args[c].op = "diagnose_issues"
    /\ LET kw == args[c].kw
           config == NormalizeConfig(Param(kw, "config", PyNone))
       IN  IF ~IsNone(config)
           THEN Delegate(c, "postgres", "diagnose_issues",
                    [cog_instance |-> args[c].cog_instance, config |-> config.d])
           ELSE Delegate(c, "sqlite", "diagnose_issues",
                    [cog_instance |-> args[c].cog_instance])

\* The file-backed dialect (redbot_orm/sqlite.py) is called, not modelled: the
\* call ends with whatever that implementation returns.
SqliteImpl(c) ==
    /\ pc[c] = "sqlite"
    /\ Return(c, [py |-> "sqlite_result", fn |-> loc[c].fn])
    /\ UNCHANGED <<loc, events, args, ncalls, world>>

\* A direct call of postgres.ensure_database_exists(cog_instance, config).
CallEnsureDatabaseExists(c) ==
    /\ pc[c] = "called"
    /\ args[c].op = "ensure_database_exists"
    /\ Goto(c, "pg_ensure_database_exists")
    /\ SetLoc(c, [impl |-> "postgres", fn |-> "ensure_database_exists", p |-> NoParams,
                  q |-> [cog_instance |-> args[c].cog_instance,
                         config |-> args[c].kw["config"].d],
                  ret |-> << >>,
                  caller_config |-> args[c].kw["config"].d])
    /\ UNCHANGED <<events, outcome, args, ncalls, world>>

\* A call of common.get_piccolo_command() in the environment env.
GetPiccoloCommand(c) ==
    /\ pc[c] = "called"
    /\ args[c].op = "get_piccolo_command"
    /\ \E env \in ToolEnvs : \E r \in get_piccolo_command(env) :
         /\ outcome' = [outcome EXCEPT ![c] = r]
         /\ SetLoc(c, [fn |-> "get_piccolo_command", env |-> env])
    /\ Goto(c, "done")
    /\ UNCHANGED <<events, args, ncalls, world>>

\* ------------------------------------------------------ common.py: output
NoMigrationsText == "No migrations need to be run"
TracebackText == "Traceback"
Rocket == "U+1F680"
BadByte == "\\xff"

\* Captured output is a sequence of tokens: a phrase the code looks for, a
\* code point, or a byte that is not valid UTF-8.
OutTokens == { NoMigrationsText, TracebackText }
ErrTokens == { TracebackText }
\* What a command run by a direct call of run_shell may write.
ShellOutTokens == { Rocket, "U+26A0", "U+FE0F", "U+2705", "a", BadByte }
StdoutTokens(op) == IF op = "run_shell" THEN ShellOutTokens ELSE OutTokens

Texts(tokens, n) == UNION { [1..k -> tokens] : k \in 0..n }

\* needle in text
Contains(text, needle) == \E i \in 1..Len(text) : text[i] = needle

\* bytes.decode(encoding="utf-8", errors="ignore")
decode(bytes) == SelectSeq(bytes, LAMBDA b : b # BadByte)

Replacements ==
    << [emoji |-> <<"U+1F44D">>, tag |-> "[OK]"],
       [emoji |-> <<Rocket>>, tag |-> "[LAUNCH]"],
       [emoji |-> <<"U+2705">>, tag |-> "[DONE]"],
       [emoji |-> <<"U+274C">>, tag |-> "[FAIL]"],
       [emoji |-> <<"U+26A0", "U+FE0F">>, tag |-> "[WARN]"],
       [emoji |-> <<"U+1F527">>, tag |-> "[FIX]"] >>

\* variant, for sensitivity: only the first occurrence is replaced
RECURSIVE str_replace_Once(_, _, _)
str_replace_Once(text, old, new) ==
    IF Len(text) < Len(old) THEN text
    ELSE IF SubSeq(text, 1, Len(old)) = old
    THEN <<new>> \o SubSeq(text, Len(old) + 1, Len(text))
    ELSE <<Head(text)>> \o str_replace_Once(Tail(text), old, new)

\* text.replace(old, new), old a sequence of code points
RECURSIVE str_replace(_, _, _)
str_replace(text, old, new) ==
    IF Len(text) < Len(old) THEN text
    ELSE IF SubSeq(text, 1, Len(old)) = old
    THEN <<new>> \o str_replace(SubSeq(text, Len(old) + 1, Len(text)), old, new)
    ELSE <<Head(text)>> \o str_replace(Tail(text), old, new)

RECURSIVE SanitizeFrom(_, _)
SanitizeFrom(text, i) ==
    IF i > Len(Replacements) THEN text
    ELSE SanitizeFrom(str_replace(text, Replacements[i].emoji, Replacements[i].tag), i + 1)

_sanitize_output(text) == SanitizeFrom(text, 1)

\* ------------------------------------------------- common.py: environment
\* The variables get_env sets that the claims speak of.
get_env(cog_instance, postgres_config) ==
    LET base ==
          [PICCOLO_CONF |-> IF "PICCOLO_CONF" \in os_environ THEN "user's"
                            ELSE "db.piccolo_conf",
           APP_NAME |-> get_root(cog_instance).stem,
           DB_PATH |-> IF cog_instance.kind = "path" THEN "cog_instance/db.sqlite"
                       ELSE "cog_data_path/db.sqlite"]
    IN  IF IsNone(postgres_config) THEN base
        ELSE base @@
             [POSTGRES_USER |-> dict_get(postgres_config.d, "user", "postgres"),
              POSTGRES_PASSWORD |-> dict_get(postgres_config.d, "password", "postgres"),
              POSTGRES_DATABASE |-> dict_get(postgres_config.d, "database", "postgres"),
              POSTGRES_HOST |-> dict_get(postgres_config.d, "host", "localhost"),
              POSTGRES_PORT |-> dict_get(postgres_config.d, "port", "5432")]

\* ------------------------------------------------------------ call frames
Lit(s) == [t |-> "literal", v |-> s]
ExeArg(exe) == [t |-> "executable", v |-> exe]
NameArg(n) == [t |-> "name", v |-> n]
DescArg(d) == [t |-> "--desc=", v |-> d]

Log(level, what) == [ev |-> "log", level |-> level, what |-> what]

\* A function of the call's stack finishes with res, its locals dropped: an
\* exception passes through every caller (none of them catches it), a value
\* goes to the frame that awaits it, or to the caller when there is none.
Exit(c, l, res) ==
    IF res.kind = "raise" \/ l.ret = << >>
    THEN /\ Goto(c, "done")
         /\ outcome' = [outcome EXCEPT ![c] = res]
         /\ SetLoc(c, l)
    ELSE /\ Goto(c, Head(l.ret))
         /\ SetLoc(c, With(l, [ret |-> Tail(l.ret), retval |-> res.value]))
         /\ UNCHANGED outcome

Returned(value) == [kind |-> "return", value |-> value]
Raised(error) == [kind |-> "raise", error |-> error]

\* What a lookup of the executable comes to, given what an earlier lookup of
\* the same call came to: the installation does not change while a call runs.
\* module_fallback records that no executable was located while the piccolo
\* package was importable.
Lookup(l) ==
    IF "found" \in DOMAIN l
    THEN { [found |-> l.found, module_fallback |-> l.module_fallback] }
    ELSE UNION { { [found |-> x, module_fallback |-> (x = NotFound /\ env.importable)] :
                     x \in find_piccolo_executable(env) } : env \in ToolEnvs }

\* ------------------------------------------ postgres.py: database existence
Durations == 0..MaxDuration

\* ensure_database_exists, to its first await: the connect is started with a
\* copy of the caller's config, `timeout` added.
EnsureDatabaseExists(c) ==
    /\ pc[c] = "pg_ensure_database_exists"
    /\ LET l == loc[c]
           copied == CopyAndSet(l.caller_config, "timeout", ConnectTimeout)
           tmp_config == copied.copy
       IN  /\ SetLoc(c, With(l, [tmp_config |-> tmp_config,
                                 caller_config |-> copied.config]))
           /\ Emit(c, << [ev |-> "admin_connect", config |-> tmp_config] >>)
    /\ Goto(c, "ens_connect")
    /\ UNCHANGED <<outcome, args, ncalls, world>>

\* await asyncpg.connect(**tmp_config) ends: the connection is open, or the
\* connect took its timeout and asyncpg raises asyncio.TimeoutError.  With
\* the connection open, the database name is derived before the try block.
EnsureConnect(c) ==
    /\ pc[c] = "ens_connect"
    /\ LET l == loc[c]
           cog_instance == l.q.cog_instance
       IN  \E d \in Durations :
             IF d >= l.tmp_config["timeout"]
             THEN /\ Exit(c, Without(l, {"tmp_config"}), Raised("asyncio.TimeoutError"))
                  /\ Emit(c, << [ev |-> "connect_timeout"] >>)
                  /\ UNCHANGED open_conns
             ELSE /\ open_conns' = open_conns \cup { args[c].id }
                  /\ Emit(c, << [ev |-> "admin_open", conn |-> args[c].id] >>)
                  /\ IF cog_instance.kind \notin { "path", "cog" }
                     THEN Exit(c, Without(l, {"tmp_config"}), Raised("AttributeError"))
                     ELSE /\ Goto(c, "ens_fetch")
                          /\ SetLoc(c, With(l, [conn |-> args[c].id,
                                                database_name |-> db_name(cog_instance)]))
                          /\ UNCHANGED outcome
    /\ UNCHANGED <<args, ncalls, files, os_environ, databases, table_db, created, ensured>>

EnsureLocals == { "tmp_config", "conn", "database_name", "escaped_name", "pending" }

\* variant, for sensitivity: the quoted name is looked up in the list
NameListed_Escaped(database_name, escaped_name, listed) == escaped_name \in listed

\* database_name not in [db["datname"] for db in databases], negated
NameListed(database_name, escaped_name, listed) == database_name \in listed

\* await conn.fetch("SELECT datname FROM pg_database;") ends, and the name is
\* looked up in the list.
EnsureFetch(c) ==
    /\ pc[c] = "ens_fetch"
    /\ LET l == loc[c]
           listed == databases
       IN  /\ Emit(c, << [ev |-> "fetch", conn |-> l.conn] >>)
           /\ IF ~NameListed(l.database_name, EscapeIdentifier(l.database_name), listed)
              THEN /\ Goto(c, "ens_create")
                   /\ SetLoc(c, With(l, [escaped_name |-> EscapeIdentifier(l.database_name)]))
              ELSE /\ Goto(c, "ens_close")
                   /\ SetLoc(c, With(l, [pending |-> Returned(FALSE)]))
    /\ UNCHANGED <<outcome, args, ncalls, world>>

\* await conn.execute(f"CREATE DATABASE {escaped_name};") ends: the server
\* creates the database the quoted identifier names, or refuses because it
\* holds one of that name.
EnsureCreate(c) ==
    /\ pc[c] = "ens_create"
    /\ LET l == loc[c]
           parsed == ParseIdentifier(l.escaped_name)
       IN  /\ Emit(c, << [ev |-> "create_database", statement |-> l.escaped_name] >>)
           /\ created' = [created EXCEPT ![l.database_name] = @ + 1]
           /\ IF ~parsed.ok
              THEN /\ SetLoc(c, With(l, [pending |-> Raised("PostgresSyntaxError")]))
                   /\ UNCHANGED databases
              ELSE IF parsed.name \in databases
              THEN /\ SetLoc(c, With(l, [pending |-> Raised("DuplicateDatabaseError")]))
                   /\ UNCHANGED databases
              ELSE /\ SetLoc(c, With(l, [pending |-> Returned(TRUE)]))
                   /\ databases' = databases \cup { parsed.name }
    /\ Goto(c, "ens_close")
    /\ UNCHANGED <<outcome, args, ncalls, files, os_environ, open_conns, table_db, ensured>>

\* finally: await conn.close(), then the return or the exception goes on.
EnsureClose(c) ==
    /\ pc[c] = "ens_close"
    /\ LET l == loc[c]
       IN  /\ open_conns' = open_conns \ { l.conn }
           /\ Emit(c, << [ev |-> "admin_close", conn |-> l.conn] >>)
           /\ ensured' = [ensured EXCEPT ![l.database_name] = Append(@, l.pending)]
           /\ Exit(c, Without(l, EnsureLocals), l.pending)
    /\ UNCHANGED <<args, ncalls, files, os_environ, databases, table_db, created>>

\* ------------------------------------------------ postgres.py: registration
\* variant, for sensitivity: the db folder is tested instead of the file in it
has_piccolo_app_FolderOnly(cog_path) == cog_path.is_dir

\* (db_folder / "piccolo_app.py").exists() or (cog_path / "piccolo_app.py").exists()
has_piccolo_app(cog_path) == cog_path.db_app \/ cog_path.root_app

\* register_cog, to its first await: the checks of the cog's directory, then
\* the call of ensure_database_exists.
PgRegisterCog(c) ==
    /\ pc[c] = "pg_register_cog"
    /\ LET l == loc[c]
           cog_instance == l.q.cog_instance
           cog_path == get_root(cog_instance)
       IN  IF cog_instance.kind \notin { "cog", "path" }
           THEN Exit(c, l, Raised("AssertionError"))
           ELSE IF is_unc_path(cog_path)
           THEN Exit(c, l, Raised("UNCPathError"))
           ELSE IF ~cog_path.is_dir
           THEN Exit(c, l, Raised("DirectoryError"))
           ELSE IF "PICCOLO_CONF" \notin os_environ /\ ~has_piccolo_app(cog_path)
           THEN Exit(c, l, Raised("DirectoryError"))
           ELSE /\ Goto(c, "pg_ensure_database_exists")
                /\ SetLoc(c, With(l, [p |-> l.q,
                                      q |-> [cog_instance |-> cog_instance,
                                             config |-> l.q.config],
                                      ret |-> <<"reg_ensured">> \o l.ret]))
                /\ UNCHANGED outcome
    /\ UNCHANGED <<events, args, ncalls, world>>

\* lines 89-92: the config copy with the derived database name, then the
\* call of acquire_db_engine
ToAcquire(c, l, logs) ==
    /\ Goto(c, "pg_acquire_db_engine")
    /\ LET copied == CopyAndSet(l.caller_config, "database", db_name(l.p.cog_instance))
       IN  SetLoc(c, With(Without(l, {"retval"}),
                          [q |-> [config |-> copied.copy,
                                  extensions |-> l.p.extensions],
                           caller_config |-> copied.config,
                           ret |-> <<"reg_pool">> \o l.ret]))
    /\ Emit(c, logs \o << Log("debug", "Fetching database engine") >>)
    /\ UNCHANGED outcome

\* variant, for sensitivity: skip_migrations is not looked at
RegisterEnsured_AlwaysMigrates(c) ==
    /\ pc[c] = "reg_ensured"
    /\ LET l == loc[c]
           logs == IF l.retval THEN << Log("info", "New database created") >> ELSE << >>
       IN  /\ Goto(c, "pg_run_migrations")
           /\ SetLoc(c, With(Without(l, {"retval"}),
                             [q |-> [cog_instance |-> l.p.cog_instance,
                                     config |-> l.p.config, trace |-> l.p.trace],
                              ret |-> <<"reg_migrated">> \o l.ret]))
           /\ Emit(c, logs \o << Log("info", "Running migrations, if any") >>)
           /\ UNCHANGED outcome
    /\ UNCHANGED <<args, ncalls, world>>

\* ensure_database_exists has returned: the migrations are run unless skipped.
RegisterEnsured(c) ==
    /\ pc[c] = "reg_ensured"
    /\ LET l == loc[c]
           logs == IF l.retval THEN << Log("info", "New database created") >> ELSE << >>
       IN  IF ~l.p.skip_migrations
           THEN /\ Goto(c, "pg_run_migrations")
                /\ SetLoc(c, With(Without(l, {"retval"}),
                                  [q |-> [cog_instance |-> l.p.cog_instance,
                                          config |-> l.p.config, trace |-> l.p.trace],
                                   ret |-> <<"reg_migrated">> \o l.ret]))
                /\ Emit(c, logs \o << Log("info", "Running migrations, if any") >>)
                /\ UNCHANGED outcome
           ELSE ToAcquire(c, l, logs)
    /\ UNCHANGED <<args, ncalls, world>>

\* variant, for sensitivity: a traceback in the output is logged like any other output
MigrationVerdict_NeverDiagnose(result) ==
    IF Contains(result, NoMigrationsText) THEN "none needed"
    ELSE IF result # << >> THEN "logged"
    ELSE "no output"

\* lines 79-87: what register_cog makes of the output of run_migrations
MigrationVerdict(result) ==
    IF Contains(result, NoMigrationsText) THEN "none needed"
    ELSE IF result # << >>
    THEN IF Contains(result, TracebackText) THEN "diagnose" ELSE "logged"
    ELSE "no output"

\* run_migrations has returned: its output decides what is logged and
\* whether diagnose_issues is called.
RegisterMigrated(c) ==
    /\ pc[c] = "reg_migrated"
    /\ LET l == loc[c]
           verdict == MigrationVerdict(l.retval)
       IN  IF verdict = "none needed"
           THEN ToAcquire(c, l, << Log("info", "No migrations needed") >>)
           ELSE IF verdict = "diagnose"
           THEN /\ Goto(c, "pg_diagnose_issues")
                /\ SetLoc(c, With(Without(l, {"retval"}),
                                  [q |-> [cog_instance |-> l.p.cog_instance,
                                          config |-> l.p.config],
                                   ret |-> <<"reg_diagnosed">> \o l.ret]))
                /\ Emit(c, << Log("info", "Migration result") >>)
                /\ UNCHANGED outcome
           ELSE IF verdict = "logged"
           THEN ToAcquire(c, l, << Log("info", "Migration result") >>)
           ELSE ToAcquire(c, l, << Log("warning", "No output from migration command") >>)
    /\ UNCHANGED <<args, ncalls, world>>

\* diagnose_issues has returned: its text is logged as an error.
RegisterDiagnosed(c) ==
    /\ pc[c] = "reg_diagnosed"
    /\ ToAcquire(c, loc[c], << Log("error", "One or more migrations failed to run!") >>)
    /\ UNCHANGED <<args, ncalls, world>>

\* variant, for sensitivity: asyncio.TimeoutError is not caught
OnAcquireTimeout_Uncaught == Raised("asyncio.TimeoutError")

\* except asyncio.TimeoutError: raise ConnectionTimeoutError(...)
OnAcquireTimeout == Raised("ConnectionTimeoutError")

\* acquire_db_engine: the engine is constructed in a worker thread within
\* the timeout, or asyncio.TimeoutError is turned into ConnectionTimeoutError.
AcquireDbEngine(c) ==
    /\ pc[c] = "pg_acquire_db_engine"
    /\ LET l == loc[c]
       IN  \E d \in Durations :
             IF d < AcquireTimeout
             THEN /\ Exit(c, l, Returned([py |-> "PostgresEngine", id |-> args[c].id,
                                          config |-> l.q.config,
                                          extensions |-> l.q.extensions]))
                  /\ Emit(c, << [ev |-> "engine", id |-> args[c].id, config |-> l.q.config] >>)
             ELSE /\ Exit(c, l, OnAcquireTimeout)
                  /\ Emit(c, << [ev |-> "acquire_timeout"] >>)
    /\ UNCHANGED <<args, ncalls, world>>

\* await engine.start_connection_pool(...) ends; when it has started, every
\* table's _meta.db is set to the engine and the engine is returned.
RegisterStartPool(c) ==
    /\ pc[c] = "reg_pool"
    /\ LET l == loc[c]
           engine == l.retval
           tables == l.p.tables
       IN  \E started \in BOOLEAN :
             IF started
             THEN /\ Emit(c, << [ev |-> "pool_started", engine |-> engine.id,
                                 min_size |-> l.p.min_size, max_size |-> l.p.max_size],
                                Log("info", "Database connection pool started") >>
                                \o [i \in 1..Len(tables) |->
                                      [ev |-> "bind", table |-> tables[i], engine |-> engine.id]])
                  /\ table_db' = [t \in Tables |->
                                    IF \E i \in 1..Len(tables) : tables[i] = t
                                    THEN engine.id ELSE table_db[t]]
                  /\ Exit(c, Without(l, {"retval"}), Returned(engine))
             ELSE /\ Exit(c, Without(l, {"retval"}), Raised("OSError"))
                  /\ UNCHANGED <<events, table_db>>
    /\ UNCHANGED <<args, ncalls, files, os_environ, databases, open_conns, created, ensured>>

\* ------------------------------------------------- postgres.py: migrations
\* The part the four operations share: the config copy with the derived
\* database name, the lookup of the executable, the command built around it
\* and the call of run_shell.  db_name comes first in the three migration
\* commands, the lookup first in diagnose_issues.
CallRunShell(c, l, commands, is_shell, temp_config, found, locals) ==
    /\ Goto(c, "run_shell")
    /\ SetLoc(c, With(l, locals @@
                      [found |-> found.found, module_fallback |-> found.module_fallback,
                       shell |-> [cog_instance |-> l.q.cog_instance,
                                  commands |-> commands, is_shell |-> is_shell,
                                  postgres_config |-> PyDict(temp_config)]]))
    /\ UNCHANGED <<events, outcome>>

NotFoundExit(c, l, found) ==
    Exit(c, With(l, [found |-> found.found, module_fallback |-> found.module_fallback]),
         Raised("FileNotFoundError"))

TraceFlag(trace) == IF trace THEN << Lit("--trace") >> ELSE << >>

MigrationCommand(c, which, extra) ==
    LET l == loc[c]
        cog_instance == l.q.cog_instance
    IN  IF cog_instance.kind \notin { "path", "cog" }
        THEN /\ Exit(c, l, Raised("AttributeError"))
             /\ UNCHANGED events
        ELSE LET copied == CopyAndSet(l.caller_config, "database", db_name(cog_instance))
                 l2 == With(l, [caller_config |-> copied.config])
             IN  \E found \in Lookup(l) :
                   IF found.found = NotFound
                   THEN /\ NotFoundExit(c, l2, found)
                        /\ UNCHANGED events
                   ELSE CallRunShell(c, l2,
                            << ExeArg(found.found), Lit("migrations"), Lit(which),
                               NameArg(get_root(cog_instance).stem) >> \o extra,
                            IF "is_shell" \in DOMAIN l.q THEN l.q.is_shell ELSE FALSE,
                            copied.copy, found, << >>)

PgRunMigrations(c) ==
    /\ pc[c] = "pg_run_migrations"
    /\ MigrationCommand(c, "forwards", TraceFlag(loc[c].q.trace))
    /\ UNCHANGED <<args, ncalls, world>>

PgReverseMigration(c) ==
    /\ pc[c] = "pg_reverse_migration"
    /\ MigrationCommand(c, "backwards",
                        << Lit(loc[c].q.timestamp) >> \o TraceFlag(loc[c].q.trace))
    /\ UNCHANGED <<args, ncalls, world>>

PgCreateMigrations(c) ==
    /\ pc[c] = "pg_create_migrations"
    /\ MigrationCommand(c, "new",
                        << Lit("--auto") >> \o TraceFlag(loc[c].q.trace)
                        \o (IF ~IsNone(loc[c].q.description)
                            THEN << DescArg(loc[c].q.description.s) >> ELSE << >>))
    /\ UNCHANGED <<args, ncalls, world>>

\* diagnose_issues, to its first await: `piccolo --diagnose` is run.
PgDiagnoseIssues(c) ==
    /\ pc[c] = "pg_diagnose_issues"
    /\ LET l == loc[c]
           cog_instance == l.q.cog_instance
       IN  \E found \in Lookup(l) :
             IF found.found = NotFound
             THEN NotFoundExit(c, l, found)
             ELSE IF cog_instance.kind \notin { "path", "cog" }
             THEN Exit(c, l, Raised("AttributeError"))
             ELSE LET copied == CopyAndSet(l.caller_config, "database",
                                           db_name(cog_instance))
                      temp_config == copied.copy
                  IN  CallRunShell(c, With(l, [ret |-> <<"diag_check">> \o l.ret,
                                               caller_config |-> copied.config]),
                          << ExeArg(found.found), Lit("--diagnose") >>, FALSE, temp_config,
                          found,
                          [diag |-> [piccolo_path |-> found.found,
                                     temp_config |-> temp_config]])
    /\ UNCHANGED <<events, args, ncalls, world>>

\* `piccolo --diagnose` has ended: `piccolo migrations check` is run.
DiagnoseCheck(c) ==
    /\ pc[c] = "diag_check"
    /\ LET l == loc[c]
       IN  CallRunShell(c, With(Without(l, {"retval"}), [ret |-> <<"diag_join">> \o l.ret]),
               << ExeArg(l.diag.piccolo_path), Lit("migrations"), Lit("check") >>, FALSE,
               l.diag.temp_config,
               [found |-> l.found, module_fallback |-> l.module_fallback],
               [diag |-> With(l.diag, [diagnoses |-> l.retval])])
    /\ UNCHANGED <<args, ncalls, world>>

\* return f"{diagnoses}\n{check}"
DiagnoseJoin(c) ==
    /\ pc[c] = "diag_join"
    /\ LET l == loc[c]
       IN  Exit(c, Without(l, {"retval", "diag"}),
                Returned(l.diag.diagnoses \o <<"\n">> \o l.retval))
    /\ UNCHANGED <<events, args, ncalls, world>>

\* --------------------------------------------------- common.py: run_shell
\* " ".join(commands) if is_shell else commands
CommandLine(commands, is_shell) ==
    IF is_shell THEN [py |-> "str", words |-> commands]
    ELSE [py |-> "list", words |-> commands]

NoStream == [py |-> "None", bytes |-> << >>]
Stream(bytes) == [py |-> "bytes", bytes |-> bytes]

\* subprocess.run(...) in the worker thread: the command runs in the cog's
\* directory under get_env's environment.  Both streams are piped unless
\* is_shell, when they go to the host's standard output and res holds none.
RunShell(c) ==
    /\ pc[c] = "run_shell"
    /\ LET l == loc[c]
           sh == l.shell
       IN  /\ Emit(c, << [ev |-> "subprocess",
                          cmd |-> CommandLine(sh.commands, sh.is_shell),
                          shell |-> sh.is_shell,
                          cwd |-> get_root(sh.cog_instance),
                          env |-> get_env(sh.cog_instance, sh.postgres_config)] >>)
           /\ \E out \in Texts(StdoutTokens(args[c].op), MaxOutLen), err \in Texts(ErrTokens, MaxErrLen) :
                SetLoc(c, With(l, [res |-> IF sh.is_shell
                                           THEN [stdout |-> NoStream, stderr |-> NoStream]
                                           ELSE [stdout |-> Stream(out),
                                                 stderr |-> Stream(err)]]))
    /\ Goto(c, "shell_done")
    /\ UNCHANGED <<outcome, args, ncalls, world>>

\* if not res.stdout: return ""
\* return _sanitize_output(res.stdout.decode(encoding="utf-8", errors="ignore"))
ShellDone(c) ==
    /\ pc[c] = "shell_done"
    /\ LET l == loc[c]
           res == l.res
       IN  Exit(c, Without(l, {"shell", "res"}),
                Returned(IF res.stdout.bytes = << >> THEN << >>
                         ELSE _sanitize_output(decode(res.stdout.bytes))))
    /\ UNCHANGED <<events, args, ncalls, world>>

\* ------------------------------------------------------------ specification
Step(c) ==
    \/ RegistryRegisterCog(c)
    \/ RegistryRunMigrations(c)
    \/ RegistryReverseMigration(c)
    \/ RegistryCreateMigrations(c)
    \/ RegistryDiagnoseIssues(c)
    \/ SqliteImpl(c)
    \/ CallEnsureDatabaseExists(c)
    \/ GetPiccoloCommand(c)
    \/ EnsureDatabaseExists(c)
    \/ EnsureConnect(c)
    \/ EnsureFetch(c)
    \/ EnsureCreate(c)
    \/ EnsureClose(c)
    \/ PgRegisterCog(c)
    \/ RegisterEnsured(c)
    \/ RegisterMigrated(c)
    \/ RegisterDiagnosed(c)
    \/ AcquireDbEngine(c)
    \/ RegisterStartPool(c)
    \/ PgRunMigrations(c)
    \/ PgReverseMigration(c)
    \/ PgCreateMigrations(c)
    \/ PgDiagnoseIssues(c)
    \/ DiagnoseCheck(c)
    \/ DiagnoseJoin(c)
    \/ RunShell(c)
    \/ ShellDone(c)

Next == \E c \in Callers : Begin(c) \/ Step(c)

Spec == Init /\ [][Next]_vars

\* Existence checks made one after another, each begun when the one before
\* has ended, for cogs whose derived names meet and differ.
EnsureCalls ==
    { Call("ensure_database_exists", ident, << >>, "config" :> PyDict(Config1)) :
        ident \in PlainIdentities }

BeginEnsure(c) ==
    /\ c = FirstCaller
    /\ pc[c] \in { "idle", "done" }
    /\ ncalls < MaxCalls
    /\ \E call \in EnsureCalls : StartCall(c, call)

SeqNext ==
    \E c \in Callers :
        \/ BeginEnsure(c)
        \/ CallEnsureDatabaseExists(c)
        \/ EnsureDatabaseExists(c)
        \/ EnsureConnect(c)
        \/ EnsureFetch(c)
        \/ EnsureCreate(c)
        \/ EnsureClose(c)

SeqSpec == Init /\ [][SeqNext]_vars

\* Direct calls of common.run_shell(cog_instance, commands, is_shell,
\* postgres_config).
ShellCalls ==
    { Call("run_shell", BaseIdentity, << >>,
           ("commands" :> << Lit("piccolo"), Lit("--diagnose") >>)
           @@ ("is_shell" :> is_shell) @@ ("postgres_config" :> config)) :
        is_shell \in BOOLEAN, config \in { PyNone, PyDict(Config1) } }

BeginShell(c) ==
    /\ c = FirstCaller
    /\ pc[c] = "idle"
    /\ ncalls = 0
    /\ \E call \in ShellCalls : StartCall(c, call)

DirectRunShell(c) ==
    /\ pc[c] = "called"
    /\ args[c].op = "run_shell"
    /\ Goto(c, "run_shell")
    /\ SetLoc(c, [fn |-> "run_shell", ret |-> << >>,
                  shell |-> [cog_instance |-> args[c].cog_instance,
                             commands |-> args[c].kw["commands"],
                             is_shell |-> args[c].kw["is_shell"],
                             postgres_config |-> args[c].kw["postgres_config"]]])
    /\ UNCHANGED <<events, outcome, args, ncalls, world>>

ShellNext ==
    \E c \in Callers :
        \/ BeginShell(c)
        \/ DirectRunShell(c)
        \/ RunShell(c)
        \/ ShellDone(c)

ShellSpec == Init /\ [][ShellNext]_vars

\* Two callers check for the database of one cog at the same time: each
\* await lets the other's coroutine run.
ConcurrentCalls ==
    { Call("ensure_database_exists", ident, << >>, "config" :> PyDict(Config1)) :
        ident \in { BaseIdentity } }

BeginConcurrent(c) ==
    /\ pc[c] = "idle"
    /\ \E call \in ConcurrentCalls : StartCall(c, call)

ConcNext ==
    \E c \in Callers :
        \/ BeginConcurrent(c)
        \/ CallEnsureDatabaseExists(c)
        \/ EnsureDatabaseExists(c)
        \/ EnsureConnect(c)
        \/ EnsureFetch(c)
        \/ EnsureCreate(c)
        \/ EnsureClose(c)

ConcSpec == Init /\ [][ConcNext]_vars

\* ------------------------------------------- scaffold.py and cli.py: calls
\* A target directory as a user may have left it, nothing else going on.
ScaffoldInit ==
    /\ files \in Targets
    /\ os_environ = {}
    /\ databases = { CallerDatabase }
    /\ open_conns = {}
    /\ table_db = [t \in Tables |-> 0]
    /\ ncalls = 0
    /\ created = [n \in DbNames |-> 0]
    /\ ensured = [n \in DbNames |-> << >>]
    /\ pc = [c \in Callers |-> "idle"]
    /\ args = [c \in Callers |-> NoArgs]
    /\ loc = [c \in Callers |-> NoLoc]
    /\ events = [c \in Callers |-> << >>]
    /\ outcome = [c \in Callers |-> NoOutcome]

ScaffoldCalls ==
    { Call("create_scaffold", OtherIdentity, << >>, kw) : kw \in Opt("overwrite", BOOLEAN) }
MainCalls ==
    { Call("main", OtherIdentity, << >>, "argv" :> argv) : argv \in Argvs }

\* create_scaffold is called, one call after the other has returned.
BeginScaffold(c) ==
    /\ c = FirstCaller
    /\ pc[c] \in { "idle", "done" }
    /\ ncalls < MaxCalls
    /\ \E call \in ScaffoldCalls :
         /\ args' = [args EXCEPT ![c] = With(call, [id |-> ncalls + 1])]
         /\ ncalls' = ncalls + 1
         /\ Goto(c, "called")
         /\ SetLoc(c, [fn |-> "create_scaffold", before |-> files])
         /\ UNCHANGED <<events, outcome, world>>

CreateScaffold(c) ==
    /\ pc[c] = "called"
    /\ args[c].op = "create_scaffold"
    /\ LET made == create_scaffold(files, Param(args[c].kw, "overwrite", FALSE))
       IN  /\ files' = made.target
           /\ Return(c, made.created)
    /\ UNCHANGED <<loc, events, args, ncalls, os_environ, databases, open_conns,
                   table_db, created, ensured>>

\* The console script is run once with argv.
BeginMain(c) ==
    /\ c = FirstCaller
    /\ pc[c] = "idle"
    /\ ncalls = 0
    /\ \E call \in MainCalls :
         /\ args' = [args EXCEPT ![c] = With(call, [id |-> ncalls + 1])]
         /\ ncalls' = ncalls + 1
         /\ Goto(c, "called")
         /\ SetLoc(c, [fn |-> "main", before |-> files])
         /\ UNCHANGED <<events, outcome, world>>

Main(c) ==
    /\ pc[c] = "called"
    /\ args[c].op = "main"
    /\ LET ran == main(args[c].kw["argv"], files)
       IN  /\ files' = ran.target
           /\ outcome' = [outcome EXCEPT ![c] = ran.result]
           /\ Emit(c, << [ev |-> "print", what |-> ran.printed] >>)
    /\ Goto(c, "done")
    /\ UNCHANGED <<loc, args, ncalls, os_environ, databases, open_conns, table_db,
                   created, ensured>>

ScaffoldNext == \E c \in Callers : BeginScaffold(c) \/ CreateScaffold(c)
ScaffoldSpec == ScaffoldInit /\ [][ScaffoldNext]_vars

CliNext == \E c \in Callers : BeginMain(c) \/ Main(c)
CliSpec == ScaffoldInit /\ [][CliNext]_vars

\* ================================================================== claims
\* What the claims speak of, in the state's terms.
Finished(c) == pc[c] = "done"
Routed(c) == pc[c] \notin { "idle", "called" }
\* The call runs fn of the server-backed dialect (postgres.py).
ServerBacked(c, fn) ==
    /\ Routed(c)
    /\ "impl" \in DOMAIN loc[c]
    /\ loc[c].impl = "postgres"
    /\ loc[c].fn = fn
IsCog(ident) == ident.kind \in { "path", "cog" }
\* A network (UNC) path: absolute, and written \\server\share\...
NetworkPath(root) == root.is_absolute /\ root.backslashes
DatabaseWork == { "admin_connect", "admin_open", "fetch", "create_database", "admin_close" }
AcquisitionWork == { "engine", "pool_started", "bind" }
NoTableBound == \A t \in Tables : table_db[t] = 0

\* C1: a server-backed register_cog on a cog whose root directory is a
\* network (UNC) path ends with UNCPathError, and in that run no
\* administrative connection is asked for or opened, no subprocess is
\* started, no engine is acquired and no table's engine slot is written.
C1_UncPathFailsFirst ==
    \A c \in Callers :
        ( /\ ServerBacked(c, "register_cog")
          /\ IsCog(args[c].cog_instance)
          /\ NetworkPath(args[c].cog_instance.root) )
        => /\ pc[c] \in { "pg_register_cog", "done" }
           /\ Finished(c) => outcome[c] = Raised("UNCPathError")
           /\ Kinds(events[c]) \cap (DatabaseWork \cup AcquisitionWork \cup {"subprocess"}) = {}
           /\ open_conns = {}
           /\ NoTableBound

\* C1 witness: the call has failed although the directory exists and holds
\* the scaffold.
C1_Witness ==
    \E c \in Callers :
        /\ ServerBacked(c, "register_cog")
        /\ NetworkPath(args[c].cog_instance.root)
        /\ args[c].cog_instance.root.is_dir
        /\ args[c].cog_instance.root.db_app
        /\ Finished(c)
        /\ outcome[c] = Raised("UNCPathError")

\* The directory is missing or lacks the scaffold marker.
InvalidDirectory(root) == ~root.is_dir \/ ~(root.db_app \/ root.root_app)

NoDatabaseOrMigration(c) ==
    /\ Kinds(events[c]) \cap (DatabaseWork \cup {"subprocess"}) = {}
    /\ open_conns = {}
    /\ \A n \in DbNames : created[n] = 0

\* C2 as stated: with PICCOLO_CONF unset, register_cog on a cog whose root
\* is not an existing directory or holds neither piccolo_app.py fails with
\* DirectoryError before ensure_database_exists is called.
C2_Original ==
    \A c \in Callers :
        ( /\ ServerBacked(c, "register_cog")
          /\ IsCog(args[c].cog_instance)
          /\ "PICCOLO_CONF" \notin os_environ
          /\ InvalidDirectory(args[c].cog_instance.root) )
        => /\ pc[c] \in { "pg_register_cog", "done" }
           /\ Finished(c) => outcome[c] = Raised("DirectoryError")
           /\ NoDatabaseOrMigration(c)

\* C2 as amended: the same, for a root that is not a network path (a network
\* path fails with UNCPathError first).
C2_InvalidDirectoryFails ==
    \A c \in Callers :
        ( /\ ServerBacked(c, "register_cog")
          /\ IsCog(args[c].cog_instance)
          /\ "PICCOLO_CONF" \notin os_environ
          /\ ~NetworkPath(args[c].cog_instance.root)
          /\ InvalidDirectory(args[c].cog_instance.root) )
        => /\ pc[c] \in { "pg_register_cog", "done" }
           /\ Finished(c) => outcome[c] = Raised("DirectoryError")
           /\ NoDatabaseOrMigration(c)

\* C2 witness: an existing directory without the marker has been refused.
C2_Witness ==
    \E c \in Callers :
        /\ ServerBacked(c, "register_cog")
        /\ "PICCOLO_CONF" \notin os_environ
        /\ ~NetworkPath(args[c].cog_instance.root)
        /\ args[c].cog_instance.root.is_dir
        /\ InvalidDirectory(args[c].cog_instance.root)
        /\ Finished(c)
        /\ outcome[c] = Raised("DirectoryError")

\* The caller's config is None (given or left out) or an empty mapping.
ConfigAbsent(kw) ==
    LET config == Param(kw, "config", PyNone) IN IsNone(config) \/ len(config) = 0
PoolParams == { "max_size", "min_size", "extensions" }
DocumentedDefault(name) ==
    CASE name = "max_size" -> DefaultMaxSize
      [] name = "min_size" -> DefaultMinSize
      [] name = "extensions" -> DefaultExtensions
      [] name = "trace" -> FALSE
      [] name = "skip_migrations" -> FALSE
      [] name = "is_shell" -> TRUE
      [] name = "description" -> PyNone
\* The caller supplied a pool-size or extensions argument that does not
\* compare equal to the parameter's default.
NonDefaultPoolArgument(kw) ==
    \E name \in PoolParams \cap DOMAIN kw : kw[name] # DocumentedDefault(name)
UsageError(c) ==
    /\ Finished(c)
    /\ outcome[c] = Raised("ValueError")
    /\ events[c] = << >>

\* C3 as stated: top-level register_cog with config None or empty and any
\* pool-size or extensions argument supplied raises the usage error and
\* delegates to neither dialect.
C3_Original ==
    \A c \in Callers :
        ( /\ args[c].op = "register_cog"
          /\ Routed(c)
          /\ ConfigAbsent(args[c].kw)
          /\ PoolParams \cap DOMAIN args[c].kw # {} )
        => UsageError(c)

\* C3 as amended: top-level register_cog with config None or empty and a
\* pool-size or extensions argument whose value differs from its default
\* (max_size 20, min_size 1, extensions the tuple ("uuid-ossp",)) raises the
\* usage error and delegates to neither dialect.
C3_NonDefaultOptionsRejected ==
    \A c \in Callers :
        ( /\ args[c].op = "register_cog"
          /\ Routed(c)
          /\ ConfigAbsent(args[c].kw)
          /\ NonDefaultPoolArgument(args[c].kw) )
        => UsageError(c)

\* C3 witness: an empty mapping with extensions given as a list was refused.
C3_Witness ==
    \E c \in Callers :
        /\ args[c].op = "register_cog"
        /\ "config" \in DOMAIN args[c].kw
        /\ args[c].kw["config"] = PyDict(EmptyDict)
        /\ "extensions" \in DOMAIN args[c].kw
        /\ args[c].kw["extensions"] = PyList(<<"uuid-ossp">>)
        /\ UsageError(c)

\* The delegations the call has made, and what was handed over.
Delegations(c) == { i \in 1..Len(events[c]) : events[c][i].ev = "delegate" }
ForwardedNames(op) ==
    CASE op = "register_cog" -> { "trace", "skip_migrations" }
      [] op = "run_migrations" -> { "trace" }
      [] op = "reverse_migration" -> { "trace" }
      [] op = "create_migrations" -> { "trace", "description", "is_shell" }
      [] op = "diagnose_issues" -> {}
DelegatedAsCalled(c) ==
    /\ Cardinality(Delegations(c)) = 1
    /\ \A i \in Delegations(c) :
         LET d == events[c][i]
             kw == args[c].kw
         IN  /\ d.impl = (IF ConfigAbsent(kw) THEN "sqlite" ELSE "postgres")
             /\ d.fn = args[c].op
             /\ d.params.cog_instance = args[c].cog_instance
             /\ \A name \in ForwardedNames(args[c].op) :
                  /\ name \in DOMAIN d.params
                  /\ d.params[name] = Param(kw, name, DocumentedDefault(name))
             /\ (args[c].op = "reverse_migration") =>
                  ( /\ "timestamp" \in DOMAIN d.params
                    /\ d.params["timestamp"] = kw["timestamp"] )

\* C4 as stated: each of the five entry points hands a call with config None
\* or empty to the file-backed implementation and a call with a non-empty
\* config to the server-backed one, exactly once, with trace, timestamp,
\* description, is_shell and skip_migrations as the caller gave them.
C4_Original ==
    \A c \in Callers :
        (args[c].op \in TopLevelOps /\ Routed(c)) => DelegatedAsCalled(c)

\* C4 as amended: the same, except that register_cog with config None or
\* empty and a non-default pool-size or extensions argument delegates to
\* neither implementation (it raises the usage error).
C4_RoutedByConfig ==
    \A c \in Callers :
        ( /\ args[c].op \in TopLevelOps
          /\ Routed(c)
          /\ ~( /\ args[c].op = "register_cog"
                /\ ConfigAbsent(args[c].kw)
                /\ NonDefaultPoolArgument(args[c].kw) ) )
        => DelegatedAsCalled(c)

\* C4 witness: create_migrations with an empty mapping, a description and
\* is_shell false went to the file-backed implementation and returned.
C4_Witness ==
    \E c \in Callers :
        /\ args[c].op = "create_migrations"
        /\ DOMAIN args[c].kw = { "config", "description", "is_shell" }
        /\ args[c].kw["config"] = PyDict(EmptyDict)
        /\ ~IsNone(args[c].kw["description"])
        /\ ~args[c].kw["is_shell"]
        /\ Finished(c)
        /\ DelegatedAsCalled(c)

\* An executable exists in some place find_piccolo_executable searches.
ExecutableExists(env) ==
    \/ \E i \in 1..MaxPathDirs : env.PATH[i] # {}
    \/ env.lib_exists /\ \E i \in 1..MaxLibFolders : env.lib_folders[i] # {}
    \/ env.default_exists
\* exe is an executable of env.
IsExecutableOf(exe, env) ==
    \/ exe.where = "PATH" /\ exe.dir \in 1..MaxPathDirs /\ exe.name \in env.PATH[exe.dir]
    \/ /\ exe.where = "lib" /\ env.lib_exists
       /\ exe.dir \in 1..MaxLibFolders /\ exe.name \in env.lib_folders[exe.dir]
    \/ exe.where = "interpreter" /\ env.default_exists

MigrationOps == { "run_migrations", "create_migrations", "reverse_migration",
                  "diagnose_issues" }
RanCommand(c) == "subprocess" \in Kinds(events[c])

\* C6 as stated: a server-backed migration operation (run_migrations,
\* create_migrations, reverse_migration, diagnose_issues) fails with
\* FileNotFoundError only when no executable exists in any search location
\* and piccolo is not importable; with piccolo importable and no executable
\* the operation still builds and runs its command.
C6_ToolNotFoundOnlyWhenNotImportable ==
    \A c \in Callers :
        ( /\ args[c].op \in MigrationOps
          /\ ServerBacked(c, args[c].op)
          /\ Finished(c)
          /\ "module_fallback" \in DOMAIN loc[c]
          /\ loc[c].module_fallback )
        => /\ outcome[c] # Raised("FileNotFoundError")
           /\ RanCommand(c)

\* The names ensure_database_exists was asked about and had not found on the
\* server when the calls began.
Fresh(n) == n \notin databases \/ created[n] > 0

\* C7: for a derived name the server does not hold at the start, the
\* ensure_database_exists calls made one after another for that name return
\* true on the first call and false on every later one, CREATE DATABASE is
\* issued once over the whole sequence, and none of the calls raises.
C7_CreatedOnce ==
    \A n \in DOMAIN ensured :
        Fresh(n) =>
            /\ created[n] <= 1
            /\ Len(ensured[n]) >= 1 => created[n] = 1
            /\ \A i \in 1..Len(ensured[n]) : ensured[n][i] = Returned(i = 1)

\* C7 witness: a second call for a created name has ended.
C7_Witness ==
    \E n \in DOMAIN ensured :
        /\ created[n] = 1
        /\ Len(ensured[n]) = 2
        /\ ensured[n][2] = Returned(FALSE)

\* The forward migration of a registration has ended with this output.
MigrationEnded(c) == args[c].op = "register_cog" /\ pc[c] = "reg_migrated"
HasTraceback(result) == result # << >> /\ Contains(result, TracebackText)
\* The call is inside the diagnostic pass of a registration.
InDiagnosticPass(c) ==
    /\ args[c].op = "register_cog"
    /\ "ret" \in DOMAIN loc[c]
    /\ \E i \in 1..Len(loc[c].ret) : loc[c].ret[i] = "reg_diagnosed"
DiagnosisLog == Log("error", "One or more migrations failed to run!")
Logged(c, entry) == \E i \in 1..Len(events[c]) : events[c][i] = entry
AllBound(c) ==
    \A i \in 1..Len(args[c].tables) :
        \E j \in 1..Len(events[c]) :
            /\ events[c][j].ev = "bind"
            /\ events[c][j].table = args[c].tables[i]

\* C8 as stated: whenever the forward-migration output of register_cog is
\* non-empty and contains the traceback marker, the diagnostic pass is run.
C8_Original ==
    [][ \A c \in Callers :
          (MigrationEnded(c) /\ HasTraceback(loc[c].retval) /\ pc'[c] # pc[c])
          => pc'[c] = "pg_diagnose_issues" ]_vars

\* C8 as amended: whenever the forward-migration output of register_cog is
\* non-empty, contains the traceback marker and does not contain "No
\* migrations need to be run", the diagnostic pass is run; the pass does not
\* end the registration with an exception; its result is logged as an error
\* and registration goes on to engine acquisition, and, the engine acquired
\* and the pool started, to the binding of every table.
C8_DiagnosticPassIsSoft ==
    [][ \A c \in Callers :
          /\ ( /\ MigrationEnded(c)
               /\ HasTraceback(loc[c].retval)
               /\ ~Contains(loc[c].retval, NoMigrationsText)
               /\ pc'[c] # pc[c] )
             => pc'[c] = "pg_diagnose_issues"
          /\ InDiagnosticPass(c) => pc'[c] # "done"
          /\ (pc[c] = "reg_diagnosed" /\ pc'[c] # pc[c])
             => /\ pc'[c] = "pg_acquire_db_engine"
                /\ \E i \in 1..Len(events'[c]) : events'[c][i] = DiagnosisLog
          /\ ( /\ Logged(c, DiagnosisLog)
               /\ pc'[c] = "done" /\ pc[c] # "done"
               /\ outcome'[c].kind = "return" )
             => /\ \E i \in 1..Len(events'[c]) : events'[c][i].ev = "pool_started"
                /\ \A i \in 1..Len(args[c].tables) :
                     table_db'[args[c].tables[i]] = outcome'[c].value.id ]_vars

\* C8 witness: a registration whose diagnostic pass was logged has returned
\* its engine with every table bound.
C8_Witness ==
    \E c \in Callers :
        /\ args[c].op = "register_cog"
        /\ Finished(c)
        /\ outcome[c].kind = "return"
        /\ Logged(c, DiagnosisLog)
        /\ AllBound(c)

\* C9: when engine construction does not finish within the 10-second bound,
\* acquire_db_engine raises ConnectionTimeoutError, register_cog passes it
\* to its caller, the pool is never started and no table's engine slot is
\* written.
C9_AcquireTimeoutIsFatal ==
    \A c \in Callers :
        "acquire_timeout" \in Kinds(events[c]) =>
            /\ Finished(c)
            /\ outcome[c] = Raised("ConnectionTimeoutError")
            /\ "pool_started" \notin Kinds(events[c])
            /\ "bind" \notin Kinds(events[c])
            /\ NoTableBound

\* C9 witness: a registration that ran its migrations met the timeout.
C9_Witness ==
    \E c \in Callers :
        /\ args[c].op = "register_cog"
        /\ "subprocess" \in Kinds(events[c])
        /\ "acquire_timeout" \in Kinds(events[c])
        /\ Finished(c)

\* C10 as stated: when opening the administrative connection in
\* ensure_database_exists takes its 10-second bound, the caller (also
\* through register_cog) gets ConnectionTimeoutError, the error of an
\* engine-acquisition timeout.
C10_ConnectTimeoutIsConnectionTimeout ==
    \A c \in Callers :
        ("connect_timeout" \in Kinds(events[c]) /\ Finished(c))
        => outcome[c] = OnAcquireTimeout

\* The mapping the caller passed as the connection config, as the caller
\* wrote it.
CallersConfig(c) == args[c].kw["config"].d
HoldsCallersConfig(c) ==
    /\ "impl" \in DOMAIN loc[c]
    /\ loc[c].impl = "postgres"

\* C11: no server-backed operation (register_cog, run_migrations,
\* reverse_migration, create_migrations, diagnose_issues,
\* ensure_database_exists) changes the caller's connection config: during
\* the call and after it has returned or raised the caller's mapping has the
\* keys and values it had, its database field unchanged and no timeout key.
C11_CallersConfigUnchanged ==
    \A c \in Callers :
        HoldsCallersConfig(c) =>
            /\ loc[c].caller_config = CallersConfig(c)
            /\ loc[c].caller_config["database"] = CallerDatabase
            /\ "timeout" \notin DOMAIN loc[c].caller_config

\* C11 witness: a registration that connected with a timeout, ran its
\* migrations under the derived name and acquired its engine has returned.
C11_Witness ==
    \E c \in Callers :
        /\ args[c].op = "register_cog"
        /\ HoldsCallersConfig(c)
        /\ Finished(c)
        /\ outcome[c].kind = "return"
        /\ \E i \in 1..Len(events[c]) :
             /\ events[c][i].ev = "admin_connect"
             /\ "timeout" \in DOMAIN events[c][i].config
        /\ \E i \in 1..Len(events[c]) :
             /\ events[c][i].ev = "engine"
             /\ events[c][i].config["database"] # CallerDatabase
        /\ RanCommand(c)
        /\ loc[c].caller_config = CallersConfig(c)

\* run_shell is about to return for a command whose streams are in loc.res.
ShellEnds(c) == pc[c] = "shell_done"
\* What run_shell hands back, given the frame it leaves and what follows.
ShellResult(l, l2, o2) == IF l.ret = << >> THEN o2.value ELSE l2.retval
SubText(part, whole) == \A i \in 1..Len(part) : Contains(whole, part[i])

\* C12 as stated: run_shell in non-shell mode returns text that contains
\* what the subprocess wrote to standard output and what it wrote to
\* standard error; in shell mode it returns the empty string whatever the
\* subprocess prints.
C12_BothStreamsReturned ==
    [][ \A c \in Callers :
          (ShellEnds(c) /\ pc'[c] # pc[c]) =>
            LET result == ShellResult(loc[c], loc'[c], outcome'[c])
                res == loc[c].res
            IN  IF loc[c].shell.is_shell
                THEN result = << >>
                ELSE /\ SubText(_sanitize_output(decode(res.stdout.bytes)), result)
                     /\ SubText(_sanitize_output(decode(res.stderr.bytes)), result)
      ]_vars

\* The places where the code points of glyph start in text.
Occurrences(glyph, text) ==
    { i \in 1..(Len(text) - Len(glyph) + 1) :
        SubSeq(text, i, i + Len(glyph) - 1) = glyph }
\* old stands somewhere in text (a substring test on code points).
HasGlyph(text, glyph) == Occurrences(glyph, text) # {}
Listed == { Replacements[i] : i \in 1..Len(Replacements) }

Subprocesses(c) == { i \in 1..Len(events[c]) : events[c][i].ev = "subprocess" }
\* The app-name words of a command line.
AppNames(cmd) == { cmd.words[i].v : i \in { j \in 1..Len(cmd.words) : cmd.words[j].t = "name" } }
MigrationCall(c) ==
    /\ args[c].op \in MigrationOps
    /\ "impl" \in DOMAIN loc[c]
    /\ loc[c].impl = "postgres"
\* The name the command line and APP_NAME carry in every subprocess so far,
\* the three migration commands naming the app as their fourth word.
AppNameIs(c, name) ==
    \A i \in Subprocesses(c) :
        LET e == events[c][i]
        IN  /\ e.env.APP_NAME = name
            /\ AppNames(e.cmd) \subseteq { name }
            /\ args[c].op # "diagnose_issues" =>
                 (Len(e.cmd.words) >= 4 /\ e.cmd.words[4] = NameArg(name))

\* C14 as stated: in the four migration operations the app name on the
\* command line and in APP_NAME is the directory stem for a bare path and
\* the qualified name for a live cog, in its original letter case.
C14_Original ==
    \A c \in Callers :
        MigrationCall(c) =>
            AppNameIs(c, IF args[c].cog_instance.kind = "path"
                         THEN args[c].cog_instance.root.stem
                         ELSE args[c].cog_instance.qualified_name)

\* C14 as amended: in the four migration operations the app name on the
\* command line and in APP_NAME is the stem of the identity's root
\* directory - the path itself for a bare path, the directory of the class
\* file for a live cog - in its original letter case.
C14_AppNameIsRootStem ==
    \A c \in Callers :
        MigrationCall(c) => AppNameIs(c, args[c].cog_instance.root.stem)

\* C14 witness: a migration of a live cog whose qualified name is not its
\* directory's name has run its command.
C14_Witness ==
    \E c \in Callers :
        /\ MigrationCall(c)
        /\ args[c].op = "run_migrations"
        /\ args[c].cog_instance.kind = "cog"
        /\ args[c].cog_instance.root.stem # args[c].cog_instance.qualified_name
        /\ Subprocesses(c) # {}
        /\ Finished(c)

\* The database name the claim derives for an identity.
DerivedName(ident) ==
    IF ident.kind = "path" THEN str_lower(ident.root.stem)
    ELSE str_lower(ident.qualified_name)
Registration(c) ==
    /\ args[c].op = "register_cog"
    /\ "impl" \in DOMAIN loc[c]
    /\ loc[c].impl = "postgres"
    /\ IsCog(args[c].cog_instance)

\* C15: within one server-backed registration the name ensure_database_exists
\* looks up and creates, the POSTGRES_DATABASE of every migration and
\* diagnose subprocess and the database of the config the engine is acquired
\* with all equal db_name(identity) - the lower-cased stem of a bare path,
\* the lower-cased qualified name of a live cog - whatever database the
\* caller's config names.
C15_OneDerivedName ==
    \A c \in Callers :
        Registration(c) =>
            LET name == DerivedName(args[c].cog_instance)
            IN  /\ "database_name" \in DOMAIN loc[c] => loc[c].database_name = name
                /\ \A i \in 1..Len(events[c]) :
                     LET e == events[c][i]
                     IN  /\ e.ev = "create_database" => e.statement = EscapeIdentifier(name)
                         /\ e.ev = "subprocess" => e.env.POSTGRES_DATABASE = name
                         /\ e.ev = "engine" => e.config["database"] = name
                /\ pc[c] = "pg_acquire_db_engine" => loc[c].q.config["database"] = name

\* C15 witness: a registration of a live cog whose directory has another
\* name has created its database, run a diagnostic pass and got its engine.
C15_Witness ==
    \E c \in Callers :
        /\ Registration(c)
        /\ args[c].cog_instance.kind = "cog"
        /\ DerivedName(args[c].cog_instance) # str_lower(args[c].cog_instance.root.stem)
        /\ DerivedName(args[c].cog_instance) # CallerDatabase
        /\ Cardinality(Subprocesses(c)) >= 3
        /\ { "create_database", "engine" } \subseteq Kinds(events[c])
        /\ Finished(c)

\* The exit status of the console script: what main returned, or the
\* status SystemExit carries.
ExitStatus(result) == IF result.kind = "return" THEN result.value ELSE result.code
MainEnded(c) == args[c].op = "main" /\ Finished(c)
\* argv names the scaffold subcommand and what follows is well formed.
RunsScaffold(argv) ==
    /\ argv # << >>
    /\ argv[1] = "scaffold"
    /\ \A i \in 2..Len(argv) : argv[i] \in { "cog", "--overwrite" }
    /\ Cardinality({ i \in 2..Len(argv) : argv[i] = "cog" }) <= 1

\* C16 as stated: main(argv) returns exit code 0 when the scaffold
\* subcommand runs, whether it created files or found them all present, and
\* exits with code 1 when no subcommand is given.
C16_ExitCodes ==
    \A c \in Callers :
        MainEnded(c) =>
            LET argv == args[c].kw["argv"]
            IN  /\ RunsScaffold(argv) => outcome[c] = Returned(0)
                /\ argv = << >> => ExitStatus(outcome[c]) = 1

ScaffoldEnded(c) == args[c].op = "create_scaffold" /\ Finished(c)
Range(seq) == { seq[i] : i \in 1..Len(seq) }

\* C17: create_scaffold without overwrite leaves the content of every
\* scaffold file that exists as it is and returns exactly the files it
\* wrote, so that a second call on the target returns an empty list; with
\* overwrite every scaffold file is rewritten to its template and returned.
\* Either way db and db/migrations exist afterwards.
C17_ScaffoldRespectsOverwrite ==
    \A c \in Callers :
        ScaffoldEnded(c) =>
            LET before == loc[c].before
                overwrite == Param(args[c].kw, "overwrite", FALSE)
                returned == outcome[c].value
            IN  /\ outcome[c].kind = "return"
                /\ Len(returned) = Cardinality(Range(returned))
                /\ { "db", "db/migrations" } \subseteq files.dirs
                /\ \A f \in ScaffoldFiles : files.content[f] # "absent"
                /\ ~overwrite =>
                     /\ \A f \in ScaffoldFiles :
                          before.content[f] # "absent" =>
                              files.content[f] = before.content[f]
                     /\ Range(returned) = { f \in ScaffoldFiles : before.content[f] = "absent" }
                     /\ \A f \in Range(returned) : files.content[f] = "template"
                     /\ args[c].id >= 2 => returned = << >>
                /\ overwrite =>
                     /\ returned = _FILES
                     /\ \A f \in ScaffoldFiles : files.content[f] = "template"

\* C17 witness: a second call without overwrite has returned an empty list
\* on a target where the first call wrote some files and kept the user's.
C17_Witness ==
    \E c \in Callers :
        /\ ScaffoldEnded(c)
        /\ args[c].id = 2
        /\ ~Param(args[c].kw, "overwrite", FALSE)
        /\ outcome[c] = Returned(<< >>)
        /\ \E f \in ScaffoldFiles : files.content[f] = "original"
        /\ \E f \in ScaffoldFiles : files.content[f] = "template"

\* The call opened an administrative connection.
Connected(c) == "admin_open" \in Kinds(events[c])

\* C18 as stated: once ensure_database_exists has opened its administrative
\* connection, every way of leaving the function - returning true after
\* the creation, returning false, raising from the name derivation, the
\* listing or the CREATE statement - closes that connection first.
C18_ConnectionAlwaysClosed ==
    \A c \in Callers :
        (Connected(c) /\ Finished(c)) =>
            /\ args[c].id \notin open_conns
            /\ "admin_close" \in Kinds(events[c])

\* The places of the events of one kind in a call's history.
Places(c, kind) == { i \in 1..Len(events[c]) : events[c][i].ev = kind }
Before(earlier, later) == \A i \in earlier : \A j \in later : i < j
SkipsMigrations(c) == Param(args[c].kw, "skip_migrations", FALSE)

\* C19: in every server-backed register_cog that returns, the steps come in
\* this order: ensure_database_exists ends, then (only when skip_migrations
\* is false) the forward migration runs, then the engine is acquired, then
\* its pool is started, then every table given is bound to that engine, and
\* that engine is returned.  At no time is a table bound to an engine whose
\* pool has not started, and with skip_migrations true no subprocess is
\* started.
C19_StepsInOrder ==
    \A c \in Callers :
        Registration(c) =>
            /\ SkipsMigrations(c) => Places(c, "subprocess") = {}
            /\ \A j \in Places(c, "bind") :
                 \E i \in Places(c, "pool_started") :
                     i < j /\ events[c][i].engine = events[c][j].engine
            /\ \A t \in Tables :
                 table_db[t] # 0 =>
                     \E i \in Places(c, "pool_started") : events[c][i].engine = table_db[t]
            /\ (Finished(c) /\ outcome[c].kind = "return") =>
                 LET engine == outcome[c].value.id
                 IN  /\ Cardinality(Places(c, "admin_close")) = 1
                     /\ Cardinality(Places(c, "engine")) = 1
                     /\ Cardinality(Places(c, "pool_started")) = 1
                     /\ ~SkipsMigrations(c) => Places(c, "subprocess") # {}
                     /\ Before(Places(c, "admin_close"), Places(c, "subprocess"))
                     /\ Before(Places(c, "admin_close"), Places(c, "engine"))
                     /\ Before(Places(c, "subprocess"), Places(c, "engine"))
                     /\ Before(Places(c, "engine"), Places(c, "pool_started"))
                     /\ Before(Places(c, "pool_started"), Places(c, "bind"))
                     /\ \A k \in Places(c, "engine") \cup Places(c, "pool_started")
                                 \cup Places(c, "bind") :
                          IF events[c][k].ev = "engine" THEN events[c][k].id = engine
                          ELSE events[c][k].engine = engine
                     /\ \A i \in 1..Len(args[c].tables) :
                          /\ \E j \in Places(c, "bind") :
                               events[c][j].table = args[c].tables[i]
                          /\ table_db[args[c].tables[i]] = engine
                     /\ \A t \in Tables :
                          (\A i \in 1..Len(args[c].tables) : args[c].tables[i] # t)
                          => table_db[t] = 0

\* C19 witness: a registration that ran its migration and a diagnostic pass
\* has bound its two tables and returned; one that skipped them has
\* returned with its one table bound.
C19_Witness ==
    \E c \in Callers :
        /\ Registration(c)
        /\ Finished(c)
        /\ outcome[c].kind = "return"
        /\ \/ /\ ~SkipsMigrations(c)
              /\ Cardinality(Places(c, "subprocess")) = 3
              /\ Cardinality(Places(c, "bind")) = 2
           \/ /\ SkipsMigrations(c)
              /\ "create_database" \in Kinds(events[c])
              /\ Cardinality(Places(c, "bind")) = 1

\* C20 as stated: when two ensure_database_exists calls for one identity run
\* at the same time against a server that does not hold the derived
\* database, in every interleaving at most one of them issues CREATE
\* DATABASE, exactly one returns true, and neither raises.
C20_ConcurrentEnsureCreatesOnce ==
    \A n \in DOMAIN ensured :
        Fresh(n) =>
            /\ created[n] <= 1
            /\ \A i \in 1..Len(ensured[n]) : ensured[n][i].kind = "return"
            /\ Cardinality({ i \in 1..Len(ensured[n]) : ensured[n][i] = Returned(TRUE) }) <= 1
            /\ (Len(ensured[n]) >= 1 /\ \A c \in Callers : pc[c] \in { "idle", "done" }) =>
                 \E i \in 1..Len(ensured[n]) : ensured[n][i] = Returned(TRUE)

====
